---- MODULE Spec2Model ----
(***************************************************************************)
(* Model of libcorels.pyx: the rule-list evaluator predict_wrap and the    *)
(* process-wide training session driven by fit_wrap_begin, fit_wrap_loop   *)
(* and fit_wrap_end.                                                       *)
(*                                                                         *)
(*   SpecPredict  applies predict_wrap once to inputs drawn in Init.       *)
(*   SpecRepeat   applies predict_wrap repeatedly to the same inputs.      *)
(*   Spec         is the session state machine over the module globals     *)
(*                rules, nrules, labels_vecs and minor, the C heap and     *)
(*                the search engine behind run_corels_begin/loop/end.      *)
(***************************************************************************)
EXTENDS Integers, Sequences, FiniteSets, TLC

\* ------------------------------------------------------------------ bounds
MaxSamples == 2
MaxFeatures == 2
MaxAnte == 2
MaxPRules == 2

\* ------------------------------------------------------------ predict_wrap
VARIABLES
  X,          \* the sample matrix: X[s][k], s in 1..nsamples, k in 0..nfeatures-1
  p_nsamples, \* X.shape[0]
  p_nfeatures,\* X.shape[1]
  features,   \* len(features): only the length of the list is read
  p_rules,    \* the rules argument: a sequence of [antecedents, prediction]
  p_status,   \* "ready", "returned" or "ValueError"
  out,        \* the returned array (a sequence of length nsamples)
  emitted,    \* per sample, the assignment that wrote out[s]:
              \*   r in 0..nrules-1 (line 86), nrules (line 90), -1 (never written)
  xreads      \* the elements <<s, idx>> of X the last call read (s 0-based)

pvars == <<X, p_nsamples, p_nfeatures, features, p_rules, p_status, out, emitted,
           xreads>>

VARIABLES
  rules,        \* cdef rule_t* rules: 0 is NULL, otherwise the id of a heap array
  labels_vecs,  \* cdef rule_t* labels_vecs
  minor,        \* cdef rule_t* minor
  nrules,       \* cdef int nrules
  heap,         \* the rule_t arrays ever allocated for the three globals
  engine,       \* the search engine's session (run_corels_begin/loop/end)
  crashed,      \* the process was aborted by an invalid memory access
  last          \* what the last call did and returned

svars == <<rules, labels_vecs, minor, nrules, heap, engine, crashed, last>>

vars == <<X, p_nsamples, p_nfeatures, features, p_rules, p_status, out, emitted,
          xreads, rules, labels_vecs, minor, nrules, heap, engine, crashed, last>>

\* Literal ids: a literal of magnitude MaxFeatures overflows every narrower
\* matrix; 0 is the id of the default placeholder.
LiteralIds == (-MaxFeatures)..MaxFeatures

Antecedents == UNION {[1..n -> LiteralIds] : n \in 0..MaxAnte}

PRule == [antecedents : Antecedents, prediction : 0..1]

\* The last entry of a rule list as fit_wrap_end writes it.
DefaultEntry(c) == [antecedents |-> <<0>>, prediction |-> c]

\* Rule lists: empty, or up to MaxPRules rules followed by the default entry.
PRuleLists ==
  {<< >>} \cup
  {Append(rs, DefaultEntry(c)) :
     rs \in UNION {[1..n -> PRule] : n \in 0..MaxPRules}, c \in 0..1}

Matrices(ns, nf) == [1..ns -> [0..(nf - 1) -> 0..1]]

\* X[s, idx] under boundscheck(False), wraparound(False): a column outside
\* 0..nfeatures-1 reads whatever lies at that address (oob).
ReadX(row, nf, idx, oob) == IF idx \in 0..(nf - 1) THEN row[idx] ELSE oob

\* LiteralFails without the test idx >= nfeatures of line 81.
LiteralFailsUnchecked(row, nf, id, oob) ==
  LET c   == IF id < 0 THEN 0 ELSE 1
      idx == (IF id < 0 THEN -id ELSE id) - 1
  IN  ReadX(row, nf, idx, oob) # c

\* Lines 74-81: TRUE when the literal sets next_rule = 1.
LiteralFails(row, nf, id, oob) ==
  LET c   == IF id < 0 THEN 0 ELSE 1
      idx == (IF id < 0 THEN -id ELSE id) - 1
  IN  idx >= nf \/ ReadX(row, nf, idx, oob) # c

\* Lines 71-83: the value of next_rule after the loop over the antecedents
\* of one rule, starting at literal a.
RECURSIVE AnteLoop(_, _, _, _, _)
AnteLoop(row, nf, ante, a, oob) ==
  IF a > Len(ante) THEN 0
  ELSE IF LiteralFails(row, nf, ante[a], oob) THEN 1
  ELSE AnteLoop(row, nf, ante, a + 1, oob)

\* RuleLoop without the break of line 87: the last matching rule wins.
RECURSIVE RuleLoopNoBreak(_, _, _, _, _, _, _)
RuleLoopNoBreak(row, nf, rs, nr, r, next_rule, oob) ==
  IF r >= nr THEN [hit |-> -1, next_rule |-> next_rule]
  ELSE LET n    == AnteLoop(row, nf, rs[r + 1].antecedents, 1, oob)
           rest == RuleLoopNoBreak(row, nf, rs, nr, r + 1, n, oob)
       IN  IF rest.hit >= 0 \/ n # 0 THEN rest
           ELSE [hit |-> r, next_rule |-> rest.next_rule]

\* Lines 70-87: the loop over the rules for one sample, from rule r (0-based).
\* next_rule is the value the variable holds on entry; the result gives the
\* rule whose prediction was written (hit = -1 when the loop ran out) and the
\* value next_rule holds afterwards.
RECURSIVE RuleLoop(_, _, _, _, _, _, _)
RuleLoop(row, nf, rs, nr, r, next_rule, oob) ==
  IF r >= nr THEN [hit |-> -1, next_rule |-> next_rule]
  ELSE LET n == AnteLoop(row, nf, rs[r + 1].antecedents, 1, oob)
       IN  IF n = 0 THEN [hit |-> r, next_rule |-> 0]
           ELSE RuleLoop(row, nf, rs, nr, r + 1, n, oob)

\* Lines 69-90: the loop over the samples from sample s (1-based); next_rule
\* is carried from one sample to the next as the C variable is.  The result is
\* the sequence of emitted sources, one per sample.
RECURSIVE SampleLoop(_, _, _, _, _, _, _, _)
SampleLoop(Xm, ns, nf, rs, nr, s, next_rule, oob) ==
  IF s > ns THEN << >>
  ELSE LET res == RuleLoop(Xm[s], nf, rs, nr, 0, next_rule, oob)
           src == IF res.hit >= 0 THEN res.hit
                  ELSE IF res.next_rule = 1 THEN nr
                  ELSE -1
       IN  <<src>> \o SampleLoop(Xm, ns, nf, rs, nr, s + 1, res.next_rule, oob)

\* Lines 73-83: the columns of the row that the loop over the antecedents of
\* one rule reads, from literal a on.  Line 81 reads X[s, idx] when idx >=
\* nfeatures is false, and the loop goes on while the literal holds.
RECURSIVE AnteReads(_, _, _, _, _)
AnteReads(row, nf, ante, a, oob) ==
  IF a > Len(ante) THEN {}
  ELSE LET id  == ante[a]
           idx == (IF id < 0 THEN -id ELSE id) - 1
       IN  IF idx >= nf THEN {}
           ELSE {idx} \cup (IF LiteralFails(row, nf, id, oob) THEN {}
                            ELSE AnteReads(row, nf, ante, a + 1, oob))

\* Lines 70-87: the columns the loop over the rules reads, from rule r on.
RECURSIVE RuleReads(_, _, _, _, _, _)
RuleReads(row, nf, rs, nr, r, oob) ==
  IF r >= nr THEN {}
  ELSE AnteReads(row, nf, rs[r + 1].antecedents, 1, oob) \cup
       (IF AnteLoop(row, nf, rs[r + 1].antecedents, 1, oob) = 0 THEN {}
        ELSE RuleReads(row, nf, rs, nr, r + 1, oob))

\* Lines 69-83: every element of X the call reads.
SampleReads(Xm, ns, nf, rs, nr, oob) ==
  UNION {{<<s - 1, idx>> : idx \in RuleReads(Xm[s], nf, rs, nr, 0, oob)} :
           s \in 1..ns}

\* FeatureCountMismatch with the placeholder slot forgotten.
FeatureCountMismatchNoSlot(nf, nfeat) == nf # nfeat

\* Line 46: nfeatures != len(features) - 1.
FeatureCountMismatch(nf, nfeat) == nf # nfeat - 1

\* The value stored in the uint8 array out[s] by the assignment src.
Stored(rs, nr, src) ==
  IF src = -1 THEN 0 ELSE rs[src + 1].prediction % 256

\* predict_wrap, lines 42-98, called on the arguments drawn in Init: for the
\* first time (first), or again after an earlier call came back.  garbage is
\* the content of the C variable next_rule before its first assignment, oob
\* the content of an address outside the matrix.  A call that raises hands
\* back no array: out, emitted and xreads keep what they held.
predict_wrap(first, garbage, oob) ==
  /\ p_status \in (IF first THEN {"ready"} ELSE {"returned", "ValueError"})
  /\ IF FeatureCountMismatch(p_nfeatures, features)
     THEN /\ p_status' = "ValueError"
          /\ UNCHANGED <<out, emitted, xreads>>
     ELSE LET nr == Len(p_rules) - 1 IN
          IF nr < 0
          THEN /\ p_status' = "returned"
               /\ out' = [s \in 1..p_nsamples |-> 0]
               /\ emitted' = [s \in 1..p_nsamples |-> -1]
               /\ xreads' = {}
          ELSE LET srcs == SampleLoop(X, p_nsamples, p_nfeatures, p_rules, nr,
                                      1, garbage, oob)
               IN  /\ p_status' = "returned"
                   /\ emitted' = srcs
                   /\ out' = [s \in 1..p_nsamples |-> Stored(p_rules, nr, srcs[s])]
                   /\ xreads' = SampleReads(X, p_nsamples, p_nfeatures, p_rules,
                                            nr, oob)
  /\ UNCHANGED <<X, p_nsamples, p_nfeatures, features, p_rules>>
  /\ UNCHANGED svars

PredictInit ==
  /\ p_nsamples \in 0..MaxSamples
  /\ p_nfeatures \in 1..MaxFeatures
  /\ X \in Matrices(p_nsamples, p_nfeatures)
  /\ features \in {p_nfeatures, p_nfeatures + 1}
  /\ p_rules \in PRuleLists
  /\ p_status = "ready"
  /\ out = << >>
  /\ emitted = << >>
  /\ xreads = {}

\* ---------------------------------------------- reference semantics (spec 4.5)
\* A literal holds on a row: positive id k iff feature k-1 is 1, negative id
\* -k iff feature k-1 is 0; a feature the matrix does not have holds nothing.
Holds(row, nf, id) ==
  \/ id > 0 /\ id - 1 < nf /\ row[id - 1] = 1
  \/ id < 0 /\ (-id) - 1 < nf /\ row[(-id) - 1] = 0

Matches(row, nf, rule) ==
  \A a \in 1..Len(rule.antecedents) : Holds(row, nf, rule.antecedents[a])

Overflows(nf, rule) ==
  \E a \in 1..Len(rule.antecedents) :
    LET id == rule.antecedents[a]
    IN  (IF id < 0 THEN -id ELSE id) - 1 >= nf

\* Number of rules before the final entry.
NRulesOf(rs) == Len(rs) - 1

\* No rule before the final entry carries the literal id 0.
ZeroFree(rs) ==
  \A r \in 1..NRulesOf(rs) :
    \A a \in 1..Len(rs[r].antecedents) : rs[r].antecedents[a] # 0

Min(S) == CHOOSE m \in S : \A n \in S : m <= n

\* ------------------------------------------------------- the training session
MaxBuf == 6
MaxRules == 2
MaxRows == 2
MaxWork == 1

NULL == 0

BufIds == 1..MaxBuf

\* A heap slot that no malloc has returned yet.
NoBuf == [kind |-> "none", recs |-> << >>, filled |-> FALSE, frees |-> 0]

\* Record k of the pool mine_rules returns: its cardinality and member ids.
MinedRecord(k) ==
  IF k % 2 = 1 THEN [cardinality |-> 1, ids |-> <<k>>]
  ELSE [cardinality |-> 2, ids |-> <<-(k - 1), k>>]

MinedPool(r) == [k \in 1..r |-> MinedRecord(k)]

\* The address the next malloc returns: addresses are never handed out twice,
\* so that a second free of an array stays visible.
Unused(h) == {b \in BufIds : h[b].kind = "none"}
NextBuf(h) == Min(Unused(h))

Allocated(h) == {b \in BufIds : h[b].kind # "none" /\ h[b].frees = 0}
Freed(h) == {b \in BufIds : h[b].frees > 0}

\* The state a call works on: the four globals, the heap, the order in which
\* the call freed arrays and entered the engine, and whether it made an
\* invalid memory access.
Machine ==
  [rules |-> rules, nrules |-> nrules, labels_vecs |-> labels_vecs,
   minor |-> minor, heap |-> heap, events |-> << >>, ub |-> FALSE]

\* _free_vector(vs, count), lines 129-141: nothing for NULL; otherwise the
\* truth vector, ids and features of every record and then the array are
\* freed.  Freeing an array a second time, or one whose records were never
\* filled in, is an invalid access.
_free_vector(m, vs) ==
  IF vs = NULL THEN m
  ELSE [m EXCEPT
          !.heap[vs].frees = IF @ < 2 THEN @ + 1 ELSE @,
          !.ub = @ \/ m.heap[vs].frees > 0 \/ ~m.heap[vs].filled,
          !.events = Append(@, [ev |-> "free", buf |-> vs])]

Malloc(m, kind, recs, filled) ==
  [m EXCEPT !.heap[NextBuf(m.heap)] =
     [kind |-> kind, recs |-> recs, filled |-> filled, frees |-> 0]]

\* The values range(n) runs through, in order.
Range(n) == [j \in 1..n |-> j - 1]

\* _to_vector with the loop of line 116 stopping one row early.
_to_vectorLeaky(d0, alloc_fails, bad_row) ==
  IF alloc_fails
  THEN [raised |-> "MemoryError", array |-> FALSE, rows |-> {},
        rows_freed |-> << >>, array_freed |-> FALSE]
  ELSE IF bad_row < d0
  THEN [raised |-> "ValueError", array |-> TRUE, rows |-> 0..(bad_row - 1),
        rows_freed |-> Range(bad_row - 1), array_freed |-> TRUE]
  ELSE [raised |-> "", array |-> TRUE, rows |-> 0..(d0 - 1),
        rows_freed |-> << >>, array_freed |-> FALSE]

\* _to_vector(X, ncount), lines 100-127, for a matrix of d0 rows.  alloc_fails:
\* malloc of the record array returns NULL; bad_row: the first row (0-based)
\* ascii_to_vector rejects, or d0 when it accepts them all.  The result names
\* the exception raised ("" for none), the rows whose truth vector was
\* allocated, the rows freed again and whether the array was freed.
\* rows_freed lists those rows in the order their truth vector was freed.
_to_vector(d0, alloc_fails, bad_row) ==
  IF alloc_fails
  THEN [raised |-> "MemoryError", array |-> FALSE, rows |-> {},
        rows_freed |-> << >>, array_freed |-> FALSE]
  ELSE IF bad_row < d0
  THEN [raised |-> "ValueError", array |-> TRUE, rows |-> 0..(bad_row - 1),
        rows_freed |-> Range(bad_row), array_freed |-> TRUE]
  ELSE [raised |-> "", array |-> TRUE, rows |-> 0..(d0 - 1),
        rows_freed |-> << >>, array_freed |-> FALSE]

\* The engine before any session and after one ended.
NoSession ==
  [state |-> "Uninitialized", rules |-> NULL, labels |-> NULL, meta |-> NULL,
   nrules |-> 0, work |-> 0]

\* run_corels_begin: a session that is open is discarded; the new one keeps
\* the three arrays it is given.  rb = -1: the engine could not set itself up.
run_corels_begin(rb, n, rs, ls, meta, work) ==
  IF rb = -1 THEN NoSession
  ELSE [state |-> "Active", rules |-> rs, labels |-> ls, meta |-> meta,
        nrules |-> n, work |-> work]

\* The arrays the open session was started with.
SessionBufs(e) == {e.rules, e.labels, e.meta} \ {NULL}

SessionInit ==
  /\ rules = NULL
  /\ labels_vecs = NULL
  /\ minor = NULL
  /\ nrules = 0
  /\ heap = [b \in BufIds |-> NoBuf]
  /\ engine = NoSession
  /\ crashed = FALSE
  /\ last = [op |-> "none"]

Stages ==
  {"samples_alloc", "samples_encode", "feature_count", "features_alloc",
   "mine", "labels_alloc", "labels_encode", "count_mismatch", "minority",
   "engine_begin", "none"}

\* The steps that fail for a reason other than the shapes of the arguments: a
\* malloc, ascii_to_vector, mine_rules, minority or run_corels_begin.
Faults == Stages \ {"feature_count", "count_mismatch"}

\* FailingStep without the test of line 173.
FailingStepUnchecked(fault, nsamples, nfeatures, nnames, nsamples_chk) ==
  IF fault \in {"samples_alloc", "samples_encode"} THEN fault
  ELSE IF fault \in {"features_alloc", "mine", "labels_alloc", "labels_encode"}
  THEN fault
  ELSE IF nsamples_chk # nsamples THEN "count_mismatch"
  ELSE fault

\* The step at which the call fails ("none": it succeeds), in the order of
\* the code.  nfeatures is the feature count _to_vector(samples) discovers,
\* nnames is len(features), nsamples_chk the sample count _to_vector(labels)
\* discovers; line 173 tests nfeatures > len(features) and line 220
\* nsamples_chk != nsamples.
FailingStep(fault, nsamples, nfeatures, nnames, nsamples_chk) ==
  IF fault \in {"samples_alloc", "samples_encode"} THEN fault
  ELSE IF nfeatures > nnames THEN "feature_count"
  ELSE IF fault \in {"features_alloc", "mine", "labels_alloc", "labels_encode"}
  THEN fault
  ELSE IF nsamples_chk # nsamples THEN "count_mismatch"
  ELSE fault

\* Lines 187-190: the pool of the previous session is freed when it has rules.
FreeOldPool(m) ==
  IF m.rules # NULL /\ m.nrules # 0
  THEN [_free_vector(m, m.rules) EXCEPT !.rules = NULL, !.nrules = 0]
  ELSE m

\* Lines 192-193 and 204: mine_rules stores a new pool of r records in rules.
MineRules(m, r) ==
  LET p == NextBuf(m.heap)
  IN  [Malloc(m, "pool", MinedPool(r), TRUE) EXCEPT
         !.rules = p, !.nrules = r,
         !.events = Append(@, [ev |-> "mine_rules", buf |-> p])]

\* Lines 209-211.
FreeOldLabels(m) ==
  IF m.labels_vecs # NULL
  THEN [_free_vector(m, m.labels_vecs) EXCEPT !.labels_vecs = NULL]
  ELSE m

\* Line 215, when _to_vector returns: the two label records.
EncodeLabels(m) ==
  [Malloc(m, "labels", << >>, TRUE) EXCEPT !.labels_vecs = NextBuf(m.heap)]

\* Lines 231-235: the old record is freed, the new one is not filled in yet.
NewMinor(m) ==
  LET m1 == IF m.minor # NULL
            THEN [_free_vector(m, m.minor) EXCEPT !.minor = NULL]
            ELSE m
  IN  [Malloc(m1, "minor", << >>, FALSE) EXCEPT !.minor = NextBuf(m.heap)]

\* Line 237, when minority succeeds: the record is filled in.
Minority(m) == [m EXCEPT !.heap[m.minor].filled = TRUE]

\* Lines 221-222 and 239-240.
FreeLabelsAndRules(m) ==
  _free_vector(_free_vector(m, m.labels_vecs), m.rules)

\* FreeAll without the assignment rules = NULL of lines 251 and 293.
FreeAllKeepsRules(m) ==
  [_free_vector(_free_vector(_free_vector(m, m.labels_vecs), m.minor), m.rules)
     EXCEPT !.labels_vecs = NULL, !.minor = NULL, !.nrules = 0]

\* Lines 246-252 and 288-294.
FreeAll(m) ==
  [_free_vector(_free_vector(_free_vector(m, m.labels_vecs), m.minor), m.rules)
     EXCEPT !.labels_vecs = NULL, !.minor = NULL, !.rules = NULL, !.nrules = 0]

Outcome(m, e, result) == [m |-> m, engine |-> e, result |-> result]

\* Lines 243-256; m holds the pool, the label records and the minority record.
BeginEngine(stage, m, work, e) ==
  LET m1 == [m EXCEPT !.events = Append(@, [ev |-> "run_corels_begin", buf |-> NULL])]
  IN  IF stage = "engine_begin"
      THEN Outcome(FreeAll(m1),
                   run_corels_begin(-1, m.nrules, m.rules, m.labels_vecs, m.minor, work),
                   "False")
      ELSE Outcome(m1,
                   run_corels_begin(0, m.nrules, m.rules, m.labels_vecs, m.minor, work),
                   "True")

\* Lines 231-241; m holds the pool and the label records.
BeginMinority(stage, m, work, e) ==
  IF stage = "minority"
  THEN Outcome(FreeLabelsAndRules(m), e, "MemoryError")
  ELSE BeginEngine(stage, Minority(m), work, e)

\* BeginLabels going on with the label records when the counts differ.
BeginLabelsTruncating(stage, m, work, e) ==
  IF stage = "labels_alloc" THEN Outcome(_free_vector(m, m.rules), e, "MemoryError")
  ELSE IF stage = "labels_encode" THEN Outcome(_free_vector(m, m.rules), e, "ValueError")
  ELSE BeginMinority(stage, NewMinor(EncodeLabels(m)), work, e)

\* Lines 209-229; m holds the new pool.
BeginLabels(stage, m, work, e) ==
  IF stage = "labels_alloc" THEN Outcome(_free_vector(m, m.rules), e, "MemoryError")
  ELSE IF stage = "labels_encode" THEN Outcome(_free_vector(m, m.rules), e, "ValueError")
  ELSE IF stage = "count_mismatch"
  THEN Outcome(FreeLabelsAndRules(EncodeLabels(m)), e, "ValueError")
  ELSE BeginMinority(stage, NewMinor(EncodeLabels(m)), work, e)

\* Lines 187-204; m is the state the call found.
BeginMine(stage, m, r, work, e) ==
  IF stage = "mine" THEN Outcome(FreeOldPool(m), e, "MemoryError")
  ELSE BeginLabels(stage, FreeOldLabels(MineRules(FreeOldPool(m), r)), work, e)

\* Lines 168-181: the steps that fail before a global is touched.
BeginOutcome(stage, m, r, work, e) ==
  IF stage \in {"samples_alloc", "features_alloc"} THEN Outcome(m, e, "MemoryError")
  ELSE IF stage \in {"samples_encode", "feature_count"} THEN Outcome(m, e, "ValueError")
  ELSE BeginMine(stage, m, r, work, e)

\* What became of samples_vecs: lines 169, 174, 180 and 199.
SamplesVecs(stage, nsamples, bad_row) ==
  LET sv == _to_vector(nsamples, stage = "samples_alloc",
                       IF stage = "samples_encode" THEN bad_row ELSE nsamples)
  IN  IF sv.raised # "" THEN sv
      ELSE [sv EXCEPT !.rows_freed = Range(nsamples), !.array_freed = TRUE]

BeforeMine == {"samples_alloc", "samples_encode", "feature_count", "features_alloc"}

\* What line 215 returned or raised; no array when the call never got there.
LabelsVecs(stage, bad_row) ==
  IF stage \in BeforeMine \cup {"mine"}
  THEN [raised |-> "", array |-> FALSE, rows |-> {}, rows_freed |-> << >>,
        array_freed |-> FALSE]
  ELSE _to_vector(2, stage = "labels_alloc",
                  IF stage = "labels_encode" THEN bad_row ELSE 2)

BeginDone(o, stage, sv, lv, shape) ==
  /\ rules' = o.m.rules
  /\ nrules' = o.m.nrules
  /\ labels_vecs' = o.m.labels_vecs
  /\ minor' = o.m.minor
  /\ heap' = o.m.heap
  /\ engine' = o.engine
  /\ crashed' \in {c \in BOOLEAN : c => o.m.ub}
  /\ last' = [op |-> "begin", result |-> o.result, stage |-> stage,
              events |-> o.m.events, was |-> engine, samples |-> sv,
              labels |-> lv, shape |-> shape]

Shape(nsamples, nfeatures, nnames, nsamples_chk) ==
  [nsamples |-> nsamples, nfeatures |-> nfeatures, nnames |-> nnames,
   nsamples_chk |-> nsamples_chk]

\* The call that fails at stage ("none": no step fails).
BeginAt(stage, shape, bad_row, r, work) ==
  BeginDone(BeginOutcome(stage, Machine, r, work, engine), stage,
            SamplesVecs(stage, shape.nsamples, bad_row),
            LabelsVecs(stage, bad_row), shape)

\* fit_wrap_begin, lines 158-256.  fault names the step that fails of itself
\* ("none": no step does), nsamples is samples.shape[0], nfeatures the number
\* of columns of samples, nnames is len(features), nsamples_chk the number of
\* columns of labels, bad_row the row of the failing matrix that cannot be
\* encoded, r the number of rules mine_rules returns, work the size of the
\* frontier the engine starts with.
fit_wrap_begin(fault, nsamples, nfeatures, nnames, nsamples_chk, bad_row, r, work) ==
  /\ ~crashed
  /\ Cardinality(Unused(heap)) >= 3
  /\ BeginAt(FailingStep(fault, nsamples, nfeatures, nnames, nsamples_chk),
             Shape(nsamples, nfeatures, nnames, nsamples_chk), bad_row, r, work)
  /\ UNCHANGED pvars

\* The arguments of a call.  An argument the call fails before reading is
\* given one value; r, work and bad_row are drawn where the failing step
\* lets them matter.
Begin ==
  \E fault \in Faults, nsamples \in 1..MaxRows :
    \E nfeatures, nnames \in (IF fault \in {"samples_alloc", "samples_encode"}
                              THEN {1} ELSE 1..MaxFeatures) :
      \E nsamples_chk \in (IF nfeatures <= nnames /\
                               fault \in {"minority", "engine_begin", "none"}
                            THEN 1..MaxRows ELSE {nsamples}) :
        \E r \in (IF FailingStep(fault, nsamples, nfeatures, nnames, nsamples_chk)
                       \in BeforeMine \cup {"mine"}
                  THEN {0} ELSE 0..MaxRules),
           work \in (IF FailingStep(fault, nsamples, nfeatures, nnames, nsamples_chk)
                        = "none"
                     THEN 0..MaxWork ELSE {0}),
           bad_row \in (IF fault = "samples_encode" THEN 0..(nsamples - 1)
                        ELSE IF fault = "labels_encode" THEN 0..1 ELSE {0}) :
          fit_wrap_begin(fault, nsamples, nfeatures, nnames, nsamples_chk,
                         bad_row, r, work)

\* run_corels_loop(max_num_nodes): expands up to max_num_nodes entries of the
\* frontier, which leaves a frontier of after entries; -1 once it is empty.
run_corels_loop(e, after) == IF after = 0 THEN -1 ELSE 0

\* fit_wrap_loop returning run_corels_loop(max_num_nodes) == -1.
fit_wrap_loopInverted(max_nodes, after) ==
  LET expands == max_nodes > 0 /\ engine.work > 0
      ub == expands /\ SessionBufs(engine) \cap Freed(heap) # {}
  IN
  /\ ~crashed
  /\ engine.state = "Active"
  /\ after \in (IF expands THEN 0..MaxWork ELSE {engine.work})
  /\ engine' = [engine EXCEPT !.work = after]
  /\ crashed' \in {c \in BOOLEAN : c => ub}
  /\ last' = [op |-> "loop", result |-> (run_corels_loop(engine, after) = -1),
              max_nodes |-> max_nodes, was |-> engine]
  /\ UNCHANGED <<rules, labels_vecs, minor, nrules, heap>>
  /\ UNCHANGED pvars

\* fit_wrap_loop, lines 258-260.  The engine works on the arrays its session
\* was started with: expanding an entry when one of them was freed is an
\* invalid access.
fit_wrap_loop(max_nodes, after) ==
  LET expands == max_nodes > 0 /\ engine.work > 0
      ub == expands /\ SessionBufs(engine) \cap Freed(heap) # {}
  IN
  /\ ~crashed
  /\ engine.state = "Active"
  /\ after \in (IF expands THEN 0..MaxWork ELSE {engine.work})
  /\ engine' = [engine EXCEPT !.work = after]
  /\ crashed' \in {c \in BOOLEAN : c => ub}
  /\ last' = [op |-> "loop", result |-> (run_corels_loop(engine, after) # -1),
              max_nodes |-> max_nodes, was |-> engine]
  /\ UNCHANGED <<rules, labels_vecs, minor, nrules, heap>>
  /\ UNCHANGED pvars

Loop == \E max_nodes \in 0..MaxWork, after \in 0..MaxWork :
          fit_wrap_loop(max_nodes, after)

\* The best paths run_corels_end may report for a pool of n rules: distinct
\* pool indices (0-based), in any order.  An engine with a defect may report
\* the index n, which no record of the pool has.
Paths(n) ==
  {p \in UNION {[1..k -> 0..n] : k \in 0..n} :
     \A i, j \in 1..Len(p) : i # j => p[i] # p[j]}

\* What is read where a record lay that holds no record any more.
JunkRecord == [cardinality |-> 1, ids |-> <<MaxRules + 1>>]

\* rules[idx] as line 278-279 read it.  mode chooses what an invalid read
\* yields: "stale" (the bytes are still those of the freed record) or "junk".
ReadRule(h, rs, idx, mode) ==
  IF h[rs].frees = 0 /\ idx < Len(h[rs].recs) THEN h[rs].recs[idx + 1]
  ELSE IF mode = "stale" /\ idx < Len(h[rs].recs) THEN h[rs].recs[idx + 1]
  ELSE JunkRecord

\* DefaultRule without the placeholder id.
DefaultRuleBare(c) == [antecedents |-> << >>, prediction |-> c]

\* Line 283: the entry appended after the rules of the path.
DefaultRule(c) == [antecedents |-> <<0>>, prediction |-> c]

\* Lines 273-286: the list built from rulelist and classes.
BuildList(h, rs, rulelist, classes, mode) ==
  [i \in 1..Len(rulelist) |->
     LET rec == ReadRule(h, rs, rulelist[i], mode)
     IN  [antecedents |-> [j \in 1..rec.cardinality |-> rec.ids[j]],
          prediction |-> classes[i]]]
  \o <<DefaultRule(classes[Len(rulelist) + 1])>>

\* TRUE when reading rules[idx] at line 278 is an invalid access: rules is
\* NULL, was freed, or has no record idx.
BadRead(h, rs, idx) ==
  IF rs = NULL THEN TRUE
  ELSE IF h[rs].frees > 0 THEN TRUE
  ELSE idx >= Len(h[rs].recs)

\* The pool indices line 278 reads, in order: all of rulelist, or when an
\* invalid read aborts the process (fatal) the indices up to that read.
ReadIndices(h, rs, rulelist, fatal) ==
  IF fatal
  THEN SubSeq(rulelist, 1,
              Min({i \in 1..Len(rulelist) : BadRead(h, rs, rulelist[i])}))
  ELSE rulelist

\* fit_wrap_end, lines 262-296.  rulelist and classes are what run_corels_end
\* hands back for the open session; mode is the outcome of reading a record
\* through a pointer that is NULL, freed or too short: "crash", "stale" or
\* "junk".
fit_wrap_end(rulelist, classes, mode) ==
  LET bad_read == IF Len(rulelist) = 0 THEN FALSE
                  ELSE IF rules = NULL THEN TRUE
                  ELSE IF heap[rules].frees > 0 THEN TRUE
                  ELSE \E i \in 1..Len(rulelist) : rulelist[i] >= Len(heap[rules].recs)
      r_out == IF bad_read /\ (rules = NULL \/ mode = "crash") THEN << >>
               ELSE BuildList(heap, rules, rulelist, classes, mode)
      \* 271: the engine finalizes the search on the arrays of its session
      stale_session == SessionBufs(engine) \cap Freed(heap) # {}
      \* 288-294
      m3 == FreeAll(Machine)
      must_crash == bad_read /\ (rules = NULL \/ mode = "crash")
      may_crash == stale_session \/ m3.ub
  IN
  /\ ~crashed
  /\ engine.state = "Active"
  /\ mode \in (IF bad_read THEN {"crash", "stale", "junk"} ELSE {"stale"})
  /\ rules' = m3.rules
  /\ nrules' = m3.nrules
  /\ labels_vecs' = m3.labels_vecs
  /\ minor' = m3.minor
  /\ heap' = m3.heap
  /\ engine' = NoSession
  /\ crashed' \in {c \in BOOLEAN : (must_crash => c) /\ (c => must_crash \/ may_crash)}
  /\ last' = [op |-> "end", result |-> "returned", r_out |-> r_out,
              rulelist |-> rulelist, classes |-> classes,
              events |-> m3.events, was |-> engine, nrules |-> nrules,
              read |-> ReadIndices(heap, rules, rulelist, must_crash),
              pool |-> IF engine.rules = NULL THEN << >> ELSE heap[engine.rules].recs]
  /\ UNCHANGED pvars

End ==
  \E rulelist \in Paths(engine.nrules), mode \in {"crash", "stale", "junk"} :
    \E classes \in [1..(Len(rulelist) + 1) -> 0..1] :
      fit_wrap_end(rulelist, classes, mode)

\* The inputs of predict_wrap while the session runs: it is not called.
PredictIdle ==
  /\ p_nsamples = 0
  /\ p_nfeatures = 1
  /\ X = << >>
  /\ features = 2
  /\ p_rules = << >>
  /\ p_status = "idle"
  /\ out = << >>
  /\ emitted = << >>
  /\ xreads = {}

Init == SessionInit /\ PredictIdle

Next == Begin \/ Loop \/ End

Spec == Init /\ [][Next]_vars

PredictCall ==
  \E garbage \in 0..1, oob \in 0..1 : predict_wrap(TRUE, garbage, oob)

PredictNext == PredictCall

PredictSessionInit == PredictInit /\ SessionInit

SpecPredict == PredictSessionInit /\ [][PredictNext]_vars

\* predict_wrap called repeatedly on the same arguments, for rule lists of at
\* most MaxRepeatRules rules before the final entry.
MaxRepeatRules == 1

PredictAgain ==
  \E garbage \in 0..1, oob \in 0..1 : predict_wrap(FALSE, garbage, oob)

RepeatInit == PredictSessionInit /\ Len(p_rules) <= MaxRepeatRules + 1

RepeatNext == PredictCall \/ PredictAgain

SpecRepeat == RepeatInit /\ [][RepeatNext]_vars

\* =================================================================== claims

\* The entry (1-based) the evaluator of spec 4.5 emits for a row: the first
\* rule that matches, else the final entry.
FirstMatch(row, nf, rs) ==
  LET M == {r \in 1..NRulesOf(rs) : Matches(row, nf, rs[r])}
  IN  IF M = {} THEN Len(rs) ELSE Min(M)

\* C1: for a rule list with at least one rule before the final entry (ids
\* non-zero, feature-count check passed), predict_wrap emits for every sample
\* the prediction of the first rule all of whose literals hold, and the final
\* entry's prediction exactly when no rule matches.
C1_FirstMatchEmitted ==
  (p_status = "returned" /\ NRulesOf(p_rules) >= 1 /\ ZeroFree(p_rules)) =>
    \A s \in 1..p_nsamples :
      LET k == FirstMatch(X[s], p_nfeatures, p_rules)
      IN  /\ emitted[s] = k - 1
          /\ out[s] = p_rules[k].prediction
          /\ (emitted[s] = NRulesOf(p_rules)) <=>
               (\A r \in 1..NRulesOf(p_rules) : ~Matches(X[s], p_nfeatures, p_rules[r]))

\* A call in which one sample fell through a non-matching first rule to a
\* second rule of two literals, one negated, and another sample to the default.
C1_Witness ==
  /\ p_status = "returned" /\ NRulesOf(p_rules) = 2 /\ ZeroFree(p_rules)
  /\ p_nsamples = 2 /\ p_nfeatures = 2
  /\ Len(p_rules[1].antecedents) >= 1
  /\ p_rules[2].antecedents = <<-1, 2>>
  /\ p_rules[2].prediction # p_rules[3].prediction
  /\ emitted = <<1, 2>>

\* C2: a rule list holding only the default entry yields the default entry's
\* prediction for every sample.
C2_DefaultOnly ==
  (p_status = "returned" /\ Len(p_rules) = 1) =>
    \A s \in 1..p_nsamples : out[s] = p_rules[1].prediction

\* The rule list without its overflowing rules, the final entry kept.
Kept(rs, nf) ==
  SelectSeq(SubSeq(rs, 1, NRulesOf(rs)), LAMBDA rule : ~Overflows(nf, rule))
    \o <<rs[Len(rs)]>>

\* C3: when the feature-count check passes no error is raised; a rule with a
\* literal whose feature index is >= nfeatures is emitted for no sample, and
\* every sample gets the prediction the list without the overflowing rules
\* gives it.
C3_OverflowSkipped ==
  /\ (p_status \notin {"ready", "idle"} /\ p_nfeatures = features - 1)
       => p_status = "returned"
  /\ (p_status = "returned" /\ NRulesOf(p_rules) >= 1) =>
       \A s \in 1..p_nsamples :
         /\ \A r \in 1..NRulesOf(p_rules) :
              Overflows(p_nfeatures, p_rules[r]) => emitted[s] # r - 1
         /\ ZeroFree(p_rules) =>
              LET kept == Kept(p_rules, p_nfeatures)
              IN  out[s] = kept[FirstMatch(X[s], p_nfeatures, kept)].prediction

\* A call on a one-feature matrix whose first rule overflows while its first
\* literal holds, and whose second rule is emitted.
C3_Witness ==
  /\ p_status = "returned" /\ NRulesOf(p_rules) = 2 /\ ZeroFree(p_rules)
  /\ p_nfeatures = 1 /\ p_nsamples >= 1
  /\ p_rules[1].antecedents = <<1, 2>>
  /\ ~Overflows(p_nfeatures, p_rules[2])
  /\ p_rules[1].prediction # p_rules[2].prediction
  /\ X[1][0] = 1
  /\ emitted[1] = 1

\* The last call was fit_wrap_begin, it came back to the caller, and it failed.
BeginFailed(l, c) == l.op = "begin" /\ l.result # "True" /\ ~c

\* C4: a failing call of fit_wrap_begin leaves rules, nrules, labels_vecs,
\* minor and the set of allocated arrays exactly as they were before the call.
C4_FailedBeginRestores ==
  [][BeginFailed(last', crashed') =>
       /\ rules' = rules /\ nrules' = nrules
       /\ labels_vecs' = labels_vecs /\ minor' = minor
       /\ Allocated(heap') = Allocated(heap)]_vars

\* C5: no array is freed a second time, and between calls none of rules,
\* labels_vecs and minor refers to an array that was freed.
C5_FreedOnce ==
  /\ \A b \in BufIds : heap[b].frees <= 1
  /\ \A ptr \in {rules, labels_vecs, minor} \ {NULL} : heap[ptr].frees = 0

\* C6: when fit_wrap_begin is called while a session is Active, the engine
\* discards that session before the call frees or rebuilds anything, and after
\* a successful call the Active session is the one of the new arrays.
C6_PreviousSessionDiscardedFirst ==
  (last.op = "begin" /\ last.was.state = "Active") =>
    /\ \A i \in 1..Len(last.events) :
         last.events[i].ev \in {"free", "mine_rules"} =>
           \E j \in 1..(i - 1) : last.events[j].ev = "run_corels_begin"
    /\ last.result = "True" =>
         /\ engine.state = "Active"
         /\ engine.rules = rules /\ engine.labels = labels_vecs
         /\ engine.meta = minor

\* C7: after fit_wrap_end returns, rules, labels_vecs and minor are NULL,
\* nrules is 0, the arrays they referred to are no longer allocated and the
\* engine is back in Uninitialized.
C7_EndReleasesEverything ==
  (last.op = "end" /\ ~crashed) =>
    /\ rules = NULL /\ labels_vecs = NULL /\ minor = NULL /\ nrules = 0
    /\ engine.state = "Uninitialized"
    /\ \A i \in 1..Len(last.events) :
         last.events[i].ev = "free" => last.events[i].buf \notin Allocated(heap)
    /\ \A b \in BufIds : heap[b].kind \in {"labels", "minor"} => b \notin Allocated(heap)

\* fit_wrap_end returned for a session with an exhausted frontier and a pool
\* of two rules, and freed the three arrays of that session, each once.
C7_Witness ==
  /\ last.op = "end" /\ ~crashed
  /\ last.was.state = "Active" /\ last.was.work = 0 /\ last.was.nrules = 2
  /\ Len(last.events) = 3
  /\ {last.events[i].buf : i \in 1..3} = SessionBufs(last.was)
  /\ \A b \in SessionBufs(last.was) : heap[b].frees = 1

MemberIds(pool) ==
  UNION {{pool[k].ids[j] : j \in 1..pool[k].cardinality} : k \in 1..Len(pool)}

\* The positions of a path whose index no record of a pool of n rules has.
OutOfRange(rulelist, n) ==
  {i \in 1..Len(rulelist) : rulelist[i] \notin 0..(n - 1)}

\* C9: fit_wrap_end called on an Active session whose best path holds indices
\* of the session's pool returns a list whose last element is the default
\* rule and whose other rules carry only member ids of the records of that
\* pool.
C9_EndWellFormed ==
  (/\ last.op = "end" /\ last.was.state = "Active"
   /\ OutOfRange(last.rulelist, last.was.nrules) = {}) =>
    /\ ~crashed
    /\ Len(last.r_out) = Len(last.rulelist) + 1
    /\ last.r_out[Len(last.r_out)].prediction = last.classes[Len(last.rulelist) + 1]
    /\ \A i \in 1..Len(last.rulelist) :
         \A a \in 1..Len(last.r_out[i].antecedents) :
           last.r_out[i].antecedents[a] \in MemberIds(last.pool)

\* C10: at most one pool is allocated in every state.
C10_AtMostOnePool ==
  Cardinality({b \in Allocated(heap) : heap[b].kind = "pool"}) <= 1

\* C14: predict_wrap called again on the arguments of a call that returned
\* returns the predictions that call returned, and no call changes the sample
\* matrix, the feature list, the rule list or the globals of the session.
C14_RepeatedCallAgrees ==
  [][/\ (p_status = "returned" /\ p_status' = "returned") => out' = out
     /\ UNCHANGED <<X, p_nsamples, p_nfeatures, features, p_rules>>
     /\ UNCHANGED svars]_vars

\* C15: a call of predict_wrap raises ValueError exactly when the matrix has
\* a number of columns other than len(features) - 1, and a call that raises
\* has produced no prediction, allocated no array and read no element of X.
C15_FeatureCountChecked ==
  p_status \notin {"ready", "idle"} =>
    /\ (p_status = "ValueError") <=> (p_nfeatures # features - 1)
    /\ p_status = "ValueError" =>
         out = << >> /\ emitted = << >> /\ xreads = {}

\* A call on two samples and a list of two rules that raised because the
\* feature list has no slot for the placeholder.
C15_Witness ==
  /\ p_status = "ValueError"
  /\ features = p_nfeatures
  /\ p_nsamples = 2 /\ NRulesOf(p_rules) = 2
  /\ out = << >>

\* C19: every element of X a call of predict_wrap reads lies in a row
\* 0..nsamples-1 and a column 0..nfeatures-1, whatever literal ids (positive,
\* negative or zero) the rule list carries.
C19_ReadsInsideMatrix ==
  p_status = "returned" =>
    \A rd \in xreads :
      rd[1] \in 0..(p_nsamples - 1) /\ rd[2] \in 0..(p_nfeatures - 1)

\* Every row of rows occurs exactly once in the sequence freed, which holds
\* nothing else.
EachOnce(rows, freed) ==
  /\ \A j \in rows : Cardinality({k \in 1..Len(freed) : freed[k] = j}) = 1
  /\ \A k \in 1..Len(freed) : freed[k] \in rows

\* C11: a call of fit_wrap_begin whose samples encode to more features than
\* len(features) raises ValueError without calling mine_rules, minority or
\* run_corels_begin, frees the truth vector of every sample record once and
\* the record array, and leaves rules, nrules, labels_vecs, minor, the heap
\* and the engine as they were.
C11_FeatureCountRejected ==
  [][(/\ last'.op = "begin"
      /\ last'.samples.raised = ""
      /\ last'.shape.nfeatures > last'.shape.nnames) =>
       /\ last'.result = "ValueError" /\ ~crashed'
       /\ last'.events = << >>
       /\ engine' = engine /\ heap' = heap
       /\ rules' = rules /\ nrules' = nrules
       /\ labels_vecs' = labels_vecs /\ minor' = minor
       /\ last'.samples.array_freed
       /\ EachOnce(last'.samples.rows, last'.samples.rows_freed)]_vars

\* A call with two samples of two features and one feature name, made while
\* a session with a pool of rules was Active, was rejected.
C11_Witness ==
  /\ last.op = "begin" /\ last.stage = "feature_count"
  /\ last.shape.nfeatures = 2 /\ last.shape.nnames = 1
  /\ last.result = "ValueError"
  /\ last.samples.rows_freed = <<0, 1>>
  /\ last.was.state = "Active" /\ engine.state = "Active"
  /\ rules # NULL /\ nrules = 2 /\ rules \in Allocated(heap)

\* C12: a call of fit_wrap_begin whose labels encode to a sample count other
\* than samples.shape[0] raises an error and does not call run_corels_begin:
\* the engine is left as it was.
C12_CountMismatchRejected ==
  (/\ last.op = "begin"
   /\ last.labels.array /\ last.labels.raised = ""
   /\ last.shape.nsamples_chk # last.shape.nsamples) =>
    /\ ~crashed => last.result = "ValueError"
    /\ \A i \in 1..Len(last.events) : last.events[i].ev # "run_corels_begin"
    /\ engine = last.was

\* A call with two samples and labels of one column was rejected after
\* mine_rules returned two rules.
C12_Witness ==
  /\ last.op = "begin" /\ last.stage = "count_mismatch"
  /\ last.shape.nsamples = 2 /\ last.shape.nsamples_chk = 1
  /\ last.result = "ValueError"
  /\ \E i \in 1..Len(last.events) : last.events[i].ev = "mine_rules"
  /\ nrules = 2

\* C13: when _to_vector raises on row i, the truth vectors of rows 0..i-1
\* were each freed exactly once and the record array was freed.
C13_EncoderFreesPartial ==
  last.op = "begin" =>
    \A v \in {last.samples, last.labels} :
      v.raised = "ValueError" =>
        v.array_freed /\ EachOnce(v.rows, v.rows_freed)

\* _to_vector(samples) raised on the second of two rows.
C13_Witness ==
  /\ last.op = "begin" /\ last.stage = "samples_encode"
  /\ last.shape.nsamples = 2
  /\ last.samples.raised = "ValueError"
  /\ last.samples.rows = {0}
  /\ last.samples.rows_freed = <<0>>
  /\ last.samples.array_freed

C17_PathResolved ==
  (/\ last.op = "end" /\ ~crashed
   /\ OutOfRange(last.rulelist, last.was.nrules) = {}) =>
    /\ Len(last.r_out) = Len(last.rulelist) + 1
    /\ \A i \in 1..Len(last.rulelist) :
         LET rec == last.pool[last.rulelist[i] + 1]
         IN  /\ last.r_out[i].antecedents = SubSeq(rec.ids, 1, rec.cardinality)
             /\ last.r_out[i].prediction = last.classes[i]

\* C18: when the best path holds an index outside 0..nrules-1, fit_wrap_end
\* does not read a pool record at that index and does not return a list.
C18_OutOfRangeIsFatal ==
  (last.op = "end" /\ OutOfRange(last.rulelist, last.nrules) # {}) =>
    /\ \A k \in 1..Len(last.read) : last.read[k] \in 0..(last.nrules - 1)
    /\ last.r_out = << >>

\* C20: while the engine's session is Active, the pool, the label records and
\* the minority record it was started with are allocated.
C20_ActiveSessionIntact ==
  engine.state = "Active" => SessionBufs(engine) \subseteq Allocated(heap)

====
